---------------------------- MODULE Spec2Model ----------------------------
(***************************************************************************)
(* A model of jason_fixer.py: the JsonFixer repair engine (structural      *)
(* scan, trim, strict parse, tolerant recursive-descent parse, canonical   *)
(* serialisation, the lru cache of the tolerant parse, the chunked path    *)
(* for oversized input and the batch entry point).                         *)
(*                                                                         *)
(* A text is a sequence of one-character strings.  Python indices are      *)
(* zero-based; a TLA+ sequence is one-based, so s[i] of the code is        *)
(* s[i + 1] here (operator At).                                            *)
(***************************************************************************)
EXTENDS Integers, Sequences, FiniteSets, TLC

(***************************************************************************)
(* Characters                                                              *)
(***************************************************************************)
\* str.isspace() on the ASCII range.
PySpace == {" ", "\t", "\n", "\r", "\f"}

\* str.isdigit() on the ASCII range.
Digits == {"0", "1", "2", "3", "4", "5", "6", "7", "8", "9"}

\* str.isalpha() on the ASCII range.
Letters ==
  {"a", "b", "c", "d", "e", "f", "g", "h", "i", "j", "k", "l", "m",
   "n", "o", "p", "q", "r", "s", "t", "u", "v", "w", "x", "y", "z",
   "A", "B", "C", "D", "E", "F", "G", "H", "I", "J", "K", "L", "M",
   "N", "O", "P", "Q", "R", "S", "T", "U", "V", "W", "X", "Y", "Z"}

\* JsonFixer.STRING_DELIMITERS.  The literal ['"', "'", """, """] reads as
\* three strings: the double quote, the single quote and the two-character
\* string ", " (a triple-quoted literal), which no single character equals.
STRING_DELIMITERS == {"\"", "'", ", "}

(***************************************************************************)
(* Python string helpers                                                   *)
(***************************************************************************)
\* s[i] with a zero-based index.
At(s, i) == s[i + 1]

\* s[a:b] with zero-based bounds 0 <= a, clipped to the text as Python does.
Slice(s, a, b) ==
  LET hi == IF b > Len(s) THEN Len(s) ELSE b
  IN  IF a >= hi THEN << >> ELSE SubSeq(s, a + 1, hi)

\* s.count(c)
Count(s, c) == Cardinality({i \in 1..Len(s) : s[i] = c})

\* s.find(c): the first zero-based index of c, or -1.
Find(s, c) ==
  LET hits == {i \in 1..Len(s) : s[i] = c}
  IN  IF hits = {} THEN -1
      ELSE (CHOOSE i \in hits : \A j \in hits : i <= j) - 1

\* s.rfind(c): the last zero-based index of c, or -1.
RFind(s, c) ==
  LET hits == {i \in 1..Len(s) : s[i] = c}
  IN  IF hits = {} THEN -1
      ELSE (CHOOSE i \in hits : \A j \in hits : i >= j) - 1

\* c in s
HasChar(s, c) == \E i \in 1..Len(s) : s[i] = c

\* s.strip(chars): drop the leading and the trailing characters in chars.
StripChars(s, chars) ==
  LET keep == {i \in 1..Len(s) : s[i] \notin chars}
  IN  IF keep = {} THEN << >>
      ELSE SubSeq(s, CHOOSE i \in keep : \A j \in keep : i <= j,
                     CHOOSE i \in keep : \A j \in keep : i >= j)

\* s.strip()
Strip(s) == StripChars(s, PySpace)

\* s.replace(c, '')
Remove(s, c) == SelectSeq(s, LAMBDA x : x # c)

(***************************************************************************)
(* JsonResults: the error map                                              *)
(***************************************************************************)
\* The empty dict of JsonResults.__init__.
NoErrors == [c \in {} |-> << >>]

\* The mutant of add_error: a record for a character already in the map
\* replaces its list.
add_error_overwrite(errors, char, index) ==
  IF char \in DOMAIN errors
    THEN [errors EXCEPT ![char] = <<index>>]
    ELSE errors @@ (char :> <<index>>)

\* JsonResults.add_error
add_error(errors, char, index) ==
  IF char \in DOMAIN errors
    THEN [errors EXCEPT ![char] = Append(@, index)]
    ELSE errors @@ (char :> <<index>>)

\* JsonFixer._track_error: self.result exists in every call the model makes
\* (it is set at the start of _process_chunk); the logger does not affect the
\* Result.
_track_error(errors, char, pos) == add_error(errors, char, pos)

(***************************************************************************)
(* The structural scan of _process_chunk                                   *)
(***************************************************************************)
\* The state before the first character.
ScanInit ==
  [quote_stack |-> << >>, bracket_stack |-> << >>, key_mode |-> TRUE,
   errors |-> NoErrors]

Expected(open_char) == IF open_char = "[" THEN "]" ELSE "}"

\* The mutant of ScanStep: a colon leaves key_mode as it was.
ScanStep_key_mode_kept(st, char, i) ==
  IF char \in STRING_DELIMITERS THEN
    IF st.quote_stack = << >> THEN
      [st EXCEPT !.quote_stack = Append(@, <<char, i>>)]
    ELSE
      LET last == st.quote_stack[Len(st.quote_stack)]
      IN  IF char = last[1]
            THEN [st EXCEPT !.quote_stack = SubSeq(@, 1, Len(@) - 1)]
            ELSE [st EXCEPT !.errors =
                    _track_error(_track_error(@, char, i), last[1], last[2])]
  ELSE IF st.quote_stack # << >> THEN st
  ELSE IF char \in {"[", "{"} THEN
    [st EXCEPT !.bracket_stack = Append(@, <<char, i>>),
               !.key_mode = IF char = "{" THEN TRUE ELSE @]
  ELSE IF char \in {"]", "}"} THEN
    IF st.bracket_stack = << >> THEN
      [st EXCEPT !.errors = _track_error(@, char, i)]
    ELSE
      LET top == st.bracket_stack[Len(st.bracket_stack)]
          popped == SubSeq(st.bracket_stack, 1, Len(st.bracket_stack) - 1)
      IN  IF char # Expected(top[1])
            THEN [st EXCEPT !.bracket_stack = popped,
                            !.errors = _track_error(_track_error(@, char, i),
                                                    top[1], top[2])]
            ELSE [st EXCEPT !.bracket_stack = popped]
  ELSE IF char = ":" THEN
    [st EXCEPT !.errors = IF ~st.key_mode THEN _track_error(@, char, i) ELSE @]
  ELSE IF char = "," THEN [st EXCEPT !.key_mode = TRUE]
  ELSE st

\* One iteration of the loop `for i, char in enumerate(rough)`.
ScanStep(st, char, i) ==
  IF char \in STRING_DELIMITERS THEN
    IF st.quote_stack = << >> THEN
      [st EXCEPT !.quote_stack = Append(@, <<char, i>>)]
    ELSE
      LET last == st.quote_stack[Len(st.quote_stack)]
      IN  IF char = last[1]
            THEN [st EXCEPT !.quote_stack = SubSeq(@, 1, Len(@) - 1)]
            ELSE [st EXCEPT !.errors =
                    _track_error(_track_error(@, char, i), last[1], last[2])]
  ELSE IF st.quote_stack # << >> THEN st
  ELSE IF char \in {"[", "{"} THEN
    [st EXCEPT !.bracket_stack = Append(@, <<char, i>>),
               !.key_mode = IF char = "{" THEN TRUE ELSE @]
  ELSE IF char \in {"]", "}"} THEN
    IF st.bracket_stack = << >> THEN
      [st EXCEPT !.errors = _track_error(@, char, i)]
    ELSE
      LET top == st.bracket_stack[Len(st.bracket_stack)]
          popped == SubSeq(st.bracket_stack, 1, Len(st.bracket_stack) - 1)
      IN  IF char # Expected(top[1])
            THEN [st EXCEPT !.bracket_stack = popped,
                            !.errors = _track_error(_track_error(@, char, i),
                                                    top[1], top[2])]
            ELSE [st EXCEPT !.bracket_stack = popped]
  ELSE IF char = ":" THEN
    [st EXCEPT !.errors = IF ~st.key_mode THEN _track_error(@, char, i) ELSE @,
               !.key_mode = FALSE]
  ELSE IF char = "," THEN [st EXCEPT !.key_mode = TRUE]
  ELSE st

\* The loop `for i, char in enumerate(rough)` up to index n: c holds the
\* scan state and the index the loop has reached.
RECURSIVE ScanLoop(_, _, _)
ScanLoop(rough, n, c) ==
  IF c.i >= n THEN c.st
  ELSE ScanLoop(rough, n,
                [st |-> ScanStep(c.st, At(rough, c.i), c.i), i |-> c.i + 1])

\* The scan state after the first n characters of rough.
ScanPrefix(rough, n) == ScanLoop(rough, n, [st |-> ScanInit, i |-> 0])

\* The mutant of OpenQuoteErrors: the open position is recorded, the
\* synthetic end position is not.
RECURSIVE OpenQuoteErrors_no_end(_, _, _)
OpenQuoteErrors_no_end(errors, stack, n) ==
  IF stack = << >> THEN errors
  ELSE OpenQuoteErrors_no_end(
         _track_error(errors, stack[1][1], stack[1][2]), Tail(stack), n)

\* The loop over the quotes still open at the end of the scan: each is
\* recorded at its own position and at len(rough).
RECURSIVE OpenQuoteErrors(_, _, _)
OpenQuoteErrors(errors, stack, n) ==
  IF stack = << >> THEN errors
  ELSE OpenQuoteErrors(
         _track_error(_track_error(errors, stack[1][1], stack[1][2]),
                      stack[1][1], n),
         Tail(stack), n)

\* The loop over the brackets still open at the end of the scan.
RECURSIVE OpenBracketErrors(_, _, _)
OpenBracketErrors(errors, stack, n) ==
  IF stack = << >> THEN errors
  ELSE OpenBracketErrors(
         _track_error(_track_error(errors, stack[1][1], stack[1][2]),
                      Expected(stack[1][1]), n),
         Tail(stack), n)

\* The error map after the structural scan and its two closing loops.
ScanErrors(rough) ==
  LET st == ScanPrefix(rough, Len(rough))
  IN  OpenBracketErrors(
        OpenQuoteErrors(st.errors, st.quote_stack, Len(rough)),
        st.bracket_stack, Len(rough))

\* JsonFixer.__has_array_before_object
HasArrayBeforeObject(text) == Count(text, "[") > Count(text, "{")

\* JsonFixer.__has_minimum_one_brace
HasMinimumOneBrace(text) == Count(text, "{") >= 1 /\ Count(text, "}") >= 1

\* The trimming at the head of the try block of _process_chunk.  In both
\* branches the opener exists, so find() is never -1; rfind() + 1 is 0 when
\* there is no closer, and the slice is then empty.
Trim(rough) ==
  IF HasArrayBeforeObject(rough)
    THEN Slice(rough, Find(rough, "["), RFind(rough, "]") + 1)
  ELSE IF HasMinimumOneBrace(rough)
    THEN Slice(rough, Find(rough, "{"), RFind(rough, "}") + 1)
  ELSE rough

(***************************************************************************)
(* Python values                                                           *)
(*                                                                         *)
(* A value is a record with a tag t.  A float is kept as the text of its   *)
(* repr() (FloatOf computes it from the lexeme); a dict is the sequence of *)
(* its <<key, value>> pairs in insertion order.                            *)
(***************************************************************************)
PyNone == [t |-> "none"]
PyBool(b) == [t |-> "bool", v |-> b]
PyInt(n) == [t |-> "int", v |-> n]
PyFloat(r) == [t |-> "float", v |-> r]
PyStr(s) == [t |-> "str", v |-> s]
PyList(items) == [t |-> "list", v |-> items]
PyDict(pairs) == [t |-> "dict", v |-> pairs]

\* A raised exception, as the outcome of an operator that can raise; v is
\* str(ex), or the name of the exception where the code never reads str(ex).
Raised(msg) == [t |-> "raise", v |-> msg]
IsRaised(x) == x.t = "raise"

\* Truthiness of `not s` for the values parse_string can return.
Falsy(x) ==
  \/ x.t = "none"
  \/ x.t = "str" /\ x.v = << >>
  \/ x.t = "int" /\ x.v = 0
  \/ x.t = "float" /\ x.v \in {<<"0", ".", "0">>, <<"-", "0", ".", "0">>}
  \/ x.t = "bool" /\ ~x.v

(***************************************************************************)
(* Numbers: int(), float(), str() and repr()                               *)
(***************************************************************************)
DigitChars == <<"0", "1", "2", "3", "4", "5", "6", "7", "8", "9">>

DigitVal(c) == (CHOOSE n \in 1..10 : DigitChars[n] = c) - 1

AllDigits(s) == \A i \in 1..Len(s) : s[i] \in Digits

\* The value of a sequence of decimal digits.
RECURSIVE NatOf(_)
NatOf(ds) ==
  IF ds = << >> THEN 0
  ELSE 10 * NatOf(SubSeq(ds, 1, Len(ds) - 1)) + DigitVal(ds[Len(ds)])

\* str(n) for n >= 0.
RECURSIVE NatStr(_)
NatStr(n) ==
  IF n < 10 THEN <<DigitChars[n + 1]>>
  ELSE NatStr(n \div 10) \o <<DigitChars[(n % 10) + 1]>>

\* str(n) of an int.
IntStr(n) == IF n < 0 THEN <<"-">> \o NatStr(-n) ELSE NatStr(n)

\* An optional sign split from a lexeme: <<is negative, the rest>>.
Unsigned(s) ==
  IF s # << >> /\ s[1] \in {"-", "+"} THEN <<s[1] = "-", Tail(s)>>
  ELSE <<FALSE, s>>

\* int() of a lexeme split into sign and digits.
IntSigned(u) ==
  IF u[2] # << >> /\ AllDigits(u[2])
    THEN PyInt(IF u[1] THEN 0 - NatOf(u[2]) ELSE NatOf(u[2]))
    ELSE Raised("ValueError")

\* int(s): a ValueError unless s is an optional sign and one or more digits
\* (surrounding whitespace is allowed by int(); underscores and non-ASCII
\* digits are outside the modelled alphabet).
IntOf(s0) == IntSigned(Unsigned(Strip(s0)))

StripLeadingZeros(ds) ==
  LET nz == {i \in 1..Len(ds) : ds[i] # "0"}
  IN  IF nz = {} THEN << >>
      ELSE SubSeq(ds, CHOOSE i \in nz : \A j \in nz : i <= j, Len(ds))

StripTrailingZeros(ds) ==
  LET nz == {i \in 1..Len(ds) : ds[i] # "0"}
  IN  IF nz = {} THEN << >>
      ELSE SubSeq(ds, 1, CHOOSE i \in nz : \A j \in nz : i >= j)

Zeros(n) == [i \in 1..n |-> "0"]

\* repr() of the float with significant digits ds (no leading or trailing
\* zero, at most 15 of them) and value 0.ds * 10^decpt: fixed notation when
\* -4 < decpt <= 16, exponent notation otherwise.
FloatRepr(neg, ds, decpt) ==
  LET sign == IF neg THEN <<"-">> ELSE << >>
      n == Len(ds)
      e == decpt - 1
      ea == IF e < 0 THEN 0 - e ELSE e
      body ==
        IF n = 0 THEN <<"0", ".", "0">>
        ELSE IF decpt > -4 /\ decpt <= 16 THEN
          IF decpt <= 0 THEN <<"0", ".">> \o Zeros(0 - decpt) \o ds
          ELSE IF decpt >= n THEN ds \o Zeros(decpt - n) \o <<".", "0">>
          ELSE SubSeq(ds, 1, decpt) \o <<".">> \o SubSeq(ds, decpt + 1, n)
        ELSE
          <<ds[1]>> \o (IF n > 1 THEN <<".">> \o Tail(ds) ELSE << >>)
          \o <<"e", IF e < 0 THEN "-" ELSE "+">>
          \o (IF ea < 10 THEN <<"0">> ELSE << >>) \o NatStr(ea)
  IN  sign \o body

\* float(): lead is the digit string without its leading zeros, ex the
\* exponent.
FloatValue(neg, ip, all, lead, ex) ==
  PyFloat(FloatRepr(neg, StripTrailingZeros(lead),
                    Len(ip) - (Len(all) - Len(lead)) + ex))

\* float(): ip and fp are the digits before and after the point, xu the
\* exponent split into sign and digits.
FloatDigits(neg, ip, fp, hasExp, xu) ==
  IF /\ AllDigits(ip) /\ AllDigits(fp) /\ Len(ip) + Len(fp) > 0
     /\ (hasExp => (xu[2] # << >> /\ AllDigits(xu[2])))
    THEN FloatValue(neg, ip, ip \o fp, StripLeadingZeros(ip \o fp),
                    IF ~hasExp THEN 0
                    ELSE IF xu[1] THEN 0 - NatOf(xu[2]) ELSE NatOf(xu[2]))
    ELSE Raised("ValueError")

\* float(): mant is the text before the exponent mark, dot the index of its
\* point or -1.
FloatMantissa(neg, mant, dot, hasExp, xu) ==
  FloatDigits(neg,
              IF dot < 0 THEN mant ELSE SubSeq(mant, 1, dot),
              IF dot < 0 THEN << >> ELSE SubSeq(mant, dot + 2, Len(mant)),
              hasExp, xu)

\* The one-based index of the first 'e' or 'E' of m, or Len(m) + 1.
ExponentMark(m) ==
  LET epos == {i \in 1..Len(m) : m[i] \in {"e", "E"}}
  IN  IF epos = {} THEN Len(m) + 1
      ELSE CHOOSE i \in epos : \A j \in epos : i <= j

\* float(): m is the unsigned lexeme, e1 the index of its exponent mark.
FloatSplit(neg, m, e1) ==
  FloatMantissa(neg, SubSeq(m, 1, e1 - 1), Find(SubSeq(m, 1, e1 - 1), "."),
                e1 <= Len(m),
                Unsigned(IF e1 > Len(m) THEN << >> ELSE SubSeq(m, e1 + 1, Len(m))))

FloatSigned(u) == FloatSplit(u[1], u[2], ExponentMark(u[2]))

\* float(s) for a decimal lexeme: [sign] digits [. digits] [e|E [sign] digits]
\* with a digit before or after the point; anything else is a ValueError
\* (the parser calls float() only on text that holds '.', 'e' or 'E', so the
\* spellings inf and nan never reach it; magnitudes outside the double range
\* and more than 15 significant digits are outside the modelled texts).
FloatOf(s0) == FloatSigned(Unsigned(Strip(s0)))

(***************************************************************************)
(* Dict keys                                                               *)
(***************************************************************************)
\* The int a numeric dict key compares equal to, where there is one: True is
\* 1, False is 0, and a float written d.0 is d (a float in exponent notation
\* is outside the modelled texts).  Any other key stands for itself.
KeyCanon(k) ==
  IF k.t = "bool" THEN PyInt(IF k.v THEN 1 ELSE 0)
  ELSE IF k.t = "float" /\ Len(k.v) > 2 /\ SubSeq(k.v, Len(k.v) - 1, Len(k.v)) = <<".", "0">>
    THEN IntOf(SubSeq(k.v, 1, Len(k.v) - 2))
  ELSE k

\* Equality of dict keys: strings by their text, numbers by their value
\* (0 == 0.0 == -0.0 == False); nan equals nothing, not even nan.
KeyEq(a, b) ==
  /\ a # PyFloat(<<"N", "a", "N">>)
  /\ KeyCanon(a) = KeyCanon(b)

\* d[key] = value on the pair sequence of a dict: an existing key keeps its
\* place (and its key object) and takes the new value.
DictSet(pairs, key, value) ==
  IF \E i \in 1..Len(pairs) : KeyEq(pairs[i][1], key)
    THEN [i \in 1..Len(pairs) |->
            IF KeyEq(pairs[i][1], key) THEN <<pairs[i][1], value>> ELSE pairs[i]]
    ELSE Append(pairs, <<key, value>>)

(***************************************************************************)
(* json.loads: the strict parser of the standard library (CPython 3.11,    *)
(* C scanner), with the position a JSONDecodeError carries.  Outside the   *)
(* modelled alphabet: the \b and \uXXXX escapes, control characters other  *)
(* than \t \n \r \f, and non-ASCII text.                                   *)
(***************************************************************************)
JsonWS == {" ", "\t", "\n", "\r"}

Control == {"\t", "\n", "\r", "\f"}

\* The result of a strict parsing step: a value and the index after it, or
\* the position of the JSONDecodeError.
Ok(val, end) == [ok |-> TRUE, val |-> val, pos |-> end]
Fail(pos) == [ok |-> FALSE, val |-> PyNone, pos |-> pos]

\* The first index >= i that holds no JSON whitespace.
SkipJsonWS(s, i) ==
  LET stop == {j \in i..Len(s) : j = Len(s) \/ At(s, j) \notin JsonWS}
  IN  IF i >= Len(s) THEN i ELSE CHOOSE j \in stop : \A k \in stop : j <= k

\* s[i:i+len(w)] == w
StartsWith(s, i, w) == Slice(s, i, i + Len(w)) = w

\* The character an escape stands for.
Unescape(esc) ==
  CASE esc = "n" -> "\n" [] esc = "t" -> "\t" [] esc = "r" -> "\r"
    [] esc = "f" -> "\f" [] OTHER -> esc

\* scanstring: s[begin] is the opening quote; c holds the index being read
\* and the characters read so far.
RECURSIVE ScanString(_, _, _)
ScanString(s, begin, c) ==
  IF c.i >= Len(s) THEN Fail(begin)
  ELSE IF At(s, c.i) = "\"" THEN Ok(PyStr(c.acc), c.i + 1)
  ELSE IF At(s, c.i) = "\\" THEN
    IF c.i + 1 >= Len(s) THEN Fail(begin)
    ELSE IF At(s, c.i + 1) \in {"\"", "\\", "/", "n", "t", "r", "f"}
      THEN ScanString(s, begin,
             [i |-> c.i + 2, acc |-> Append(c.acc, Unescape(At(s, c.i + 1)))])
      ELSE Fail(c.i)
  ELSE IF At(s, c.i) \in Control THEN Fail(c.i)
  ELSE ScanString(s, begin, [i |-> c.i + 1, acc |-> Append(c.acc, At(s, c.i))])

\* py_scanstring(s, end) with end the index after the opening quote.
py_scanstring(s, end) == ScanString(s, end - 1, [i |-> end, acc |-> << >>])

\* The end of the longest run of digits from index i.
DigitsEnd(s, i) ==
  LET stop == {j \in i..Len(s) : j = Len(s) \/ At(s, j) \notin Digits}
  IN  IF i >= Len(s) THEN i ELSE CHOOSE j \in stop : \A k \in stop : j <= k

\* _match_number: -?(0|[1-9][0-9]*)(\.[0-9]+)?([eE][-+]?[0-9]+)? at idx.
\* The last stage: i2 is the end of the integer and fraction digits, e0 the
\* index where the exponent digits would start.
MatchExponent(s, idx, frac, i2, e0) ==
  IF e0 > i2 /\ e0 < Len(s) /\ At(s, e0) \in Digits
    THEN Ok(FloatOf(Slice(s, idx, DigitsEnd(s, e0))), DigitsEnd(s, e0))
  ELSE IF frac THEN Ok(FloatOf(Slice(s, idx, i2)), i2)
  ELSE Ok(IntOf(Slice(s, idx, i2)), i2)

\* i2 is the end of the integer and fraction digits.
MatchAfterFraction(s, idx, frac, i2) ==
  MatchExponent(s, idx, frac, i2,
    IF i2 + 1 < Len(s) /\ At(s, i2) \in {"e", "E"}
      THEN (IF At(s, i2 + 1) \in {"-", "+"} THEN i2 + 2 ELSE i2 + 1)
      ELSE i2)

\* i1 is the end of the integer digits.
MatchFraction(s, idx, i1) ==
  IF i1 + 1 < Len(s) /\ At(s, i1) = "." /\ At(s, i1 + 1) \in Digits
    THEN MatchAfterFraction(s, idx, TRUE, DigitsEnd(s, i1 + 1))
    ELSE MatchAfterFraction(s, idx, FALSE, i1)

\* i0 is the index after the optional sign.
MatchInteger(s, idx, i0) ==
  IF i0 >= Len(s) \/ At(s, i0) \notin Digits THEN Fail(idx)
  ELSE MatchFraction(s, idx, IF At(s, i0) = "0" THEN i0 + 1 ELSE DigitsEnd(s, i0))

MatchNumber(s, idx) ==
  MatchInteger(s, idx, IF At(s, idx) = "-" THEN idx + 1 ELSE idx)

RECURSIVE ScanOnce(_, _)
RECURSIVE JsonObject(_, _, _)
RECURSIVE JsonArray(_, _, _)
RECURSIVE ObjectAfterValue(_, _, _)
RECURSIVE ObjectValue(_, _, _, _)
RECURSIVE ObjectColon(_, _, _, _)
RECURSIVE ObjectKeyRead(_, _, _)
RECURSIVE ArrayAfterValue(_, _, _)
RECURSIVE ArrayValue(_, _, _)

\* scan_once: one JSON term at idx.
ScanOnce(s, idx) ==
  IF idx >= Len(s) THEN Fail(idx)
  ELSE LET c == At(s, idx) IN
    IF c = "\"" THEN py_scanstring(s, idx + 1)
    ELSE IF c = "{" THEN JsonObject(s, SkipJsonWS(s, idx + 1), << >>)
    ELSE IF c = "[" THEN JsonArray(s, SkipJsonWS(s, idx + 1), << >>)
    ELSE IF StartsWith(s, idx, <<"n", "u", "l", "l">>) THEN Ok(PyNone, idx + 4)
    ELSE IF StartsWith(s, idx, <<"t", "r", "u", "e">>)
      THEN Ok(PyBool(TRUE), idx + 4)
    ELSE IF StartsWith(s, idx, <<"f", "a", "l", "s", "e">>)
      THEN Ok(PyBool(FALSE), idx + 5)
    ELSE IF StartsWith(s, idx, <<"N", "a", "N">>)
      THEN Ok(PyFloat(<<"N", "a", "N">>), idx + 3)
    ELSE IF StartsWith(s, idx, <<"I", "n", "f", "i", "n", "i", "t", "y">>)
      THEN Ok(PyFloat(<<"I", "n", "f", "i", "n", "i", "t", "y">>), idx + 8)
    ELSE IF StartsWith(s, idx, <<"-", "I", "n", "f", "i", "n", "i", "t", "y">>)
      THEN Ok(PyFloat(<<"-", "I", "n", "f", "i", "n", "i", "t", "y">>), idx + 9)
    ELSE MatchNumber(s, idx)

\* _parse_object after a member: `after` is the index of the first
\* character that is not whitespace behind the value.
ObjectAfterValue(s, pairs, after) ==
  IF after < Len(s) /\ At(s, after) = "}" THEN Ok(PyDict(pairs), after + 1)
  ELSE IF after >= Len(s) \/ At(s, after) # "," THEN Fail(after)
  ELSE JsonObject(s, SkipJsonWS(s, after + 1), pairs)

\* _parse_object after the ':' of a member with key `key`.
ObjectValue(s, pairs, key, val) ==
  IF ~val.ok THEN val
  ELSE ObjectAfterValue(s, DictSet(pairs, key, val.val), SkipJsonWS(s, val.pos))

\* _parse_object after a key: `colon` is the index where ':' must be.
ObjectColon(s, pairs, key, colon) ==
  IF colon >= Len(s) \/ At(s, colon) # ":" THEN Fail(colon)
  ELSE ObjectValue(s, pairs, key, ScanOnce(s, SkipJsonWS(s, colon + 1)))

\* _parse_object after scanning a key string.
ObjectKeyRead(s, pairs, key) ==
  IF ~key.ok THEN key
  ELSE ObjectColon(s, pairs, key.val, SkipJsonWS(s, key.pos))

\* _parse_object: idx is past '{' and the whitespace after it (or past a
\* ',' and its whitespace); pairs are the members read so far.
JsonObject(s, idx, pairs) ==
  IF pairs = << >> /\ idx < Len(s) /\ At(s, idx) = "}" THEN Ok(PyDict(pairs), idx + 1)
  ELSE IF idx >= Len(s) \/ At(s, idx) # "\"" THEN Fail(idx)
  ELSE ObjectKeyRead(s, pairs, py_scanstring(s, idx + 1))

\* _parse_array after an element: `after` is the index of the first
\* character that is not whitespace behind it.
ArrayAfterValue(s, items, after) ==
  IF after < Len(s) /\ At(s, after) = "]" THEN Ok(PyList(items), after + 1)
  ELSE IF after >= Len(s) \/ At(s, after) # "," THEN Fail(after)
  ELSE JsonArray(s, SkipJsonWS(s, after + 1), items)

\* _parse_array after scanning an element.
ArrayValue(s, items, val) ==
  IF ~val.ok THEN val
  ELSE ArrayAfterValue(s, Append(items, val.val), SkipJsonWS(s, val.pos))

\* _parse_array: idx is past '[' and the whitespace after it (or past a ','
\* and its whitespace); items are the elements read so far.
JsonArray(s, idx, items) ==
  IF items = << >> /\ idx < Len(s) /\ At(s, idx) = "]" THEN Ok(PyList(items), idx + 1)
  ELSE ArrayValue(s, items, ScanOnce(s, idx))

\* decode(): the term must be followed by nothing but whitespace; anything
\* else is "Extra data" at the index where it starts.
LoadsEnd(s, r, end) ==
  IF ~r.ok THEN r
  ELSE IF end # Len(s) THEN Fail(end)
  ELSE r

LoadsTerm(s, r) == LoadsEnd(s, r, IF r.ok THEN SkipJsonWS(s, r.pos) ELSE 0)

\* json.loads(s): one term between optional whitespace.
json_loads(s) == LoadsTerm(s, ScanOnce(s, SkipJsonWS(s, 0)))

(***************************************************************************)
(* json.dumps(obj, separators=(',', ':'))                                  *)
(***************************************************************************)
\* The escape of one character inside a JSON string (ensure_ascii).
EscapeChar(c) ==
  CASE c = "\"" -> <<"\\", "\"">>
    [] c = "\\" -> <<"\\", "\\">>
    [] c = "\n" -> <<"\\", "n">>
    [] c = "\t" -> <<"\\", "t">>
    [] c = "\r" -> <<"\\", "r">>
    [] c = "\f" -> <<"\\", "f">>
    [] OTHER -> <<c>>

RECURSIVE EscapeAll(_)
EscapeAll(s) ==
  IF s = << >> THEN << >> ELSE EscapeChar(s[1]) \o EscapeAll(Tail(s))

\* A JSON string literal.
Quoted(s) == <<"\"">> \o EscapeAll(s) \o <<"\"">>

\* str(x) of a scalar.
PyStrOf(x) ==
  CASE x.t = "none" -> <<"N", "o", "n", "e">>
    [] x.t = "bool" -> IF x.v THEN <<"T", "r", "u", "e">>
                       ELSE <<"F", "a", "l", "s", "e">>
    [] x.t = "int" -> IntStr(x.v)
    [] x.t = "float" -> x.v
    [] x.t = "str" -> x.v

\* A dict key as json.dumps writes it: a string as it is, a number or a
\* keyword by its JSON spelling.
KeyText(k) ==
  CASE k.t = "str" -> k.v
    [] k.t = "int" -> IntStr(k.v)
    [] k.t = "float" -> k.v
    [] k.t = "bool" -> IF k.v THEN <<"t", "r", "u", "e">>
                       ELSE <<"f", "a", "l", "s", "e">>
    [] k.t = "none" -> <<"n", "u", "l", "l">>

RECURSIVE json_dumps(_)
RECURSIVE DumpItems(_)
RECURSIVE DumpPairs(_)

json_dumps(x) ==
  CASE x.t = "none" -> <<"n", "u", "l", "l">>
    [] x.t = "bool" -> IF x.v THEN <<"t", "r", "u", "e">>
                       ELSE <<"f", "a", "l", "s", "e">>
    [] x.t = "int" -> IntStr(x.v)
    [] x.t = "float" -> x.v
    [] x.t = "str" -> Quoted(x.v)
    [] x.t = "list" -> <<"[">> \o DumpItems(x.v) \o <<"]">>
    [] x.t = "dict" -> <<"{">> \o DumpPairs(x.v) \o <<"}">>

DumpItems(items) ==
  IF items = << >> THEN << >>
  ELSE json_dumps(items[1])
       \o (IF Len(items) > 1 THEN <<",">> ELSE << >>) \o DumpItems(Tail(items))

DumpPairs(pairs) ==
  IF pairs = << >> THEN << >>
  ELSE Quoted(KeyText(pairs[1][1])) \o <<":">> \o json_dumps(pairs[1][2])
       \o (IF Len(pairs) > 1 THEN <<",">> ELSE << >>) \o DumpPairs(Tail(pairs))

\* JsonFixer._standardize_json: the second definition (the method taking the
\* parsed object) replaces the cached static one of the same name.
_standardize_json(obj) == json_dumps(obj)

(***************************************************************************)
(* The tolerant Value Parser.  The cursor (self.json_str, self.index) and  *)
(* the error map of self.result are threaded through: every operator       *)
(* returns the value, the index after it and the error map.  A value of    *)
(* Raised(...) is an exception on its way up to _process_chunk.            *)
(***************************************************************************)
R(val, idx, errs) == [val |-> val, idx |-> idx, errs |-> errs]

\* JsonFixer._cleanup_string.  `if not s: return s` lets every falsy value
\* through; s.strip() on a non-empty int or float raises AttributeError.
_cleanup_string(x, is_key) ==
  IF Falsy(x) THEN x
  ELSE IF x.t # "str"
    THEN Raised("'" \o x.t \o "' object has no attribute 'strip'")
  ELSE IF is_key THEN PyStr(Remove(Remove(Strip(x.v), ":"), ";"))
  ELSE PyStr(StripChars(Strip(x.v), {"\"", "'", "\\"}))

\* One iteration of the while loop of parse_string, its condition
\* included: c holds the index, the text accumulated, the escape flag,
\* whether the loop has ended and whether it ended at the closing quote.
StringStep(s, is_quoted, quote, c) ==
  IF c.i >= Len(s) THEN [c EXCEPT !.done = TRUE]
  ELSE IF c.escaped
    THEN [c EXCEPT !.i = @ + 1, !.string = Append(@, At(s, c.i)), !.escaped = FALSE]
  ELSE IF At(s, c.i) = "\\" THEN [c EXCEPT !.i = @ + 1, !.escaped = TRUE]
  ELSE IF is_quoted /\ At(s, c.i) = quote
    THEN [c EXCEPT !.i = @ + 1, !.done = TRUE, !.found_end = TRUE]
  ELSE IF ~is_quoted /\ At(s, c.i) \in {",", ":", "]", "}"}
    THEN [c EXCEPT !.done = TRUE]
  ELSE IF ~is_quoted /\ At(s, c.i) \in PySpace /\ Strip(c.string) # << >>
    THEN [c EXCEPT !.done = TRUE]
  ELSE [c EXCEPT !.i = @ + 1, !.string = Append(@, At(s, c.i))]

\* The while loop of parse_string.
RECURSIVE StringLoop(_, _, _, _)
StringLoop(s, is_quoted, quote, c) ==
  IF c.done THEN c
  ELSE StringLoop(s, is_quoted, quote, StringStep(s, is_quoted, quote, c))

\* parse_string, lines 389-403: an unquoted token that int() or float()
\* accepts is a number, anything else is cleaned up as a string.
StringValue(is_quoted, result, num, idx, errs) ==
  IF ~is_quoted /\ ~IsRaised(num) THEN R(num, idx, errs)
  ELSE R(_cleanup_string(PyStr(result), FALSE), idx, errs)

\* parse_string after its loop, with the text stripped.
StringResult(is_quoted, result, idx, errs) ==
  StringValue(is_quoted, result,
              IF HasChar(result, ".") THEN FloatOf(result) ELSE IntOf(result),
              idx, errs)

\* parse_string after its loop: an opened quote that was never closed is
\* tracked at the index of the opening quote.
StringEnd(s, index, errs, is_quoted, c) ==
  StringResult(is_quoted, Strip(c.string), c.i,
               IF is_quoted /\ ~c.found_end
                 THEN _track_error(errs, At(s, index), index) ELSE errs)

\* parse_string with the kind of token decided.
StringStart(s, index, errs, is_quoted) ==
  StringEnd(s, index, errs, is_quoted,
            StringLoop(s, is_quoted, At(s, index),
                       [i |-> IF is_quoted THEN index + 1 ELSE index,
                        string |-> << >>, escaped |-> FALSE,
                        done |-> FALSE, found_end |-> FALSE]))

\* JsonFixer.parse_string
parse_string(s, index, errs) ==
  IF index >= Len(s) THEN R(PyStr(<< >>), index, errs)
  ELSE StringStart(s, index, errs, At(s, index) \in STRING_DELIMITERS)

\* The end of the run of characters parse_number consumes.
NumberEnd(s, i) ==
  LET stop == {j \in i..Len(s) :
                 j = Len(s) \/ At(s, j) \notin Digits \cup {".", "-", "e", "E"}}
  IN  IF i >= Len(s) THEN i ELSE CHOOSE j \in stop : \A k \in stop : j <= k

\* parse_number: a lexeme neither float() nor int() accepts counts as 0.
NumberValue(n, end, errs) == R(IF IsRaised(n) THEN PyInt(0) ELSE n, end, errs)

\* parse_number with the lexeme cut out.
NumberLexeme(number, end, errs) ==
  NumberValue(IF HasChar(number, ".") \/ HasChar(number, "e") \/ HasChar(number, "E")
                THEN FloatOf(number) ELSE IntOf(number),
              end, errs)

NumberSlice(s, index, end, errs) == NumberLexeme(Slice(s, index, end), end, errs)

\* JsonFixer.parse_number
parse_number(s, index, errs) == NumberSlice(s, index, NumberEnd(s, index), errs)

\* The end of a run of characters of `skip` from index i.
SkipWhile(s, i, skip) ==
  LET stop == {j \in i..Len(s) : j = Len(s) \/ At(s, j) \notin skip}
  IN  IF i >= Len(s) THEN i ELSE CHOOSE j \in stop : \A k \in stop : j <= k

RECURSIVE parse(_, _, _)
RECURSIVE ObjectLoop(_, _)
RECURSIVE ArrayLoop(_, _)

\* The loop ends by raising: the exception is on its way up.
Raise(c, r) ==
  [c EXCEPT !.done = TRUE, !.val = r.val, !.index = r.idx, !.errs = r.errs]

\* parse_object, lines 238-240: the key is read and cleaned up.
ObjectKeyClean(c, k, key) ==
  IF IsRaised(key) THEN Raise(c, R(key, k.idx, k.errs))
  ELSE [c EXCEPT !.index = k.idx, !.errs = k.errs,
                 !.expect_key = FALSE, !.current_key = key]

ObjectKey(c, k) == ObjectKeyClean(c, k, _cleanup_string(k.val, TRUE))

\* parse_object, lines 245-250: the value is read and stored under the key
\* unless either is None.
ObjectMember(c, v) ==
  IF IsRaised(v.val) THEN Raise(c, v)
  ELSE [c EXCEPT !.index = v.idx, !.errs = v.errs,
                 !.obj = IF c.current_key.t # "none" /\ v.val.t # "none"
                           THEN DictSet(@, c.current_key, v.val) ELSE @,
                 !.expect_key = TRUE, !.current_key = PyNone]

\* One iteration of the while loop of parse_object, its condition included:
\* c holds the index, the error map, the dict, the two loop variables,
\* whether the loop has ended and, then, what parse_object returns.
ObjectStep(s, c) ==
  IF c.index >= Len(s) THEN [c EXCEPT !.done = TRUE, !.val = PyDict(c.obj)]
  ELSE IF At(s, c.index) \in PySpace \cup {","} THEN [c EXCEPT !.index = @ + 1]
  ELSE IF At(s, c.index) = "}"
    THEN [c EXCEPT !.index = @ + 1, !.done = TRUE, !.val = PyDict(c.obj)]
  ELSE IF c.expect_key THEN ObjectKey(c, parse_string(s, c.index, c.errs))
  ELSE IF At(s, c.index) = ":" THEN [c EXCEPT !.index = @ + 1]
  ELSE ObjectMember(c, parse(s, c.index, c.errs))

\* The while loop of parse_object.
ObjectLoop(s, c) == IF c.done THEN c ELSE ObjectLoop(s, ObjectStep(s, c))

\* What the loop hands back.
LoopResult(c) == R(c.val, c.index, c.errs)

\* JsonFixer.parse_object, entered with the index past '{'.
parse_object(s, index, errs) ==
  LoopResult(ObjectLoop(s, [index |-> index, errs |-> errs, obj |-> << >>,
                            expect_key |-> TRUE, current_key |-> PyNone,
                            done |-> FALSE, val |-> PyNone]))

\* parse_array, lines 266-275: the element is appended unless it is None,
\* then whitespace and commas are skipped.
ArrayItem(s, c, v) ==
  IF IsRaised(v.val) THEN Raise(c, v)
  ELSE [c EXCEPT !.index = SkipWhile(s, v.idx, PySpace \cup {","}),
                 !.errs = v.errs,
                 !.arr = IF v.val.t # "none" THEN Append(@, v.val) ELSE @]

\* parse_array after skipping whitespace up to i1.
ArrayItems(s, c, i1) ==
  IF i1 >= Len(s) \/ At(s, i1) = "]"
    THEN [c EXCEPT !.index = i1 + 1, !.done = TRUE, !.val = PyList(c.arr)]
  ELSE ArrayItem(s, c, parse(s, i1, c.errs))

\* One iteration of the outer while loop of parse_array, its condition
\* included.
ArrayStep(s, c) ==
  IF c.index >= Len(s) THEN [c EXCEPT !.done = TRUE, !.val = PyList(c.arr)]
  ELSE ArrayItems(s, c, SkipWhile(s, c.index, PySpace))

\* The while loop of parse_array.
ArrayLoop(s, c) == IF c.done THEN c ELSE ArrayLoop(s, ArrayStep(s, c))

\* JsonFixer.parse_array, entered with the index past '['.
parse_array(s, index, errs) ==
  LoopResult(ArrayLoop(s, [index |-> index, errs |-> errs, arr |-> << >>,
                           done |-> FALSE, val |-> PyNone]))

\* JsonFixer.parse
parse(s, index, errs) ==
  IF index >= Len(s) THEN R(PyNone, index, errs)
  ELSE IF At(s, index) \in PySpace THEN parse(s, index + 1, errs)
  ELSE IF At(s, index) = "{" THEN parse_object(s, index + 1, errs)
  ELSE IF At(s, index) = "[" THEN parse_array(s, index + 1, errs)
  ELSE IF At(s, index) \in STRING_DELIMITERS \cup Letters
    THEN parse_string(s, index, errs)
  ELSE IF At(s, index) \in Digits \cup {".", "-"}
    THEN parse_number(s, index, errs)
  ELSE parse(s, index + 1, errs)

(***************************************************************************)
(* The Repair Cache: functools.lru_cache(maxsize=1024) on _cached_parse.   *)
(* The decorator wraps the function in the class body, so a process has    *)
(* one cache for all its engines; the key is (self, json_str) and engines  *)
(* compare by identity.  A cache is the sequence of its entries, least     *)
(* recently used first.                                                    *)
(***************************************************************************)
maxsize == 1024

CacheHit(cache, key) == \E i \in 1..Len(cache) : cache[i].key = key

CacheIndex(cache, key) == CHOOSE i \in 1..Len(cache) : cache[i].key = key

\* A hit moves the entry to the most-recently-used end.
CacheTouch(cache, i) ==
  SubSeq(cache, 1, i - 1) \o SubSeq(cache, i + 1, Len(cache)) \o <<cache[i]>>

\* A miss stores the value, evicting the least recently used entry when full.
CachePut(cache, key, val) ==
  Append(IF Len(cache) >= maxsize THEN Tail(cache) ELSE cache,
         [key |-> key, val |-> val])

\* _cached_parse on a hit: the stored value is returned and parse() does not
\* run, so nothing is tracked.
CacheFound(cache, i, errs) ==
  [val |-> cache[i].val, errs |-> errs, cache |-> CacheTouch(cache, i)]

\* _cached_parse on a miss: parse() has run from index 0; the value it
\* returned is stored, unless it raised.
CacheMiss(cache, key, p) ==
  [val |-> p.val, errs |-> p.errs,
   cache |-> IF IsRaised(p.val) THEN cache ELSE CachePut(cache, key, p.val)]

\* JsonFixer._cached_parse of the engine `self`.
_cached_parse(cache, self, json_str, errs) ==
  IF CacheHit(cache, <<self, json_str>>)
    THEN CacheFound(cache, CacheIndex(cache, <<self, json_str>>), errs)
    ELSE CacheMiss(cache, <<self, json_str>>, parse(json_str, 0, errs))

(***************************************************************************)
(* The repair pipeline                                                     *)
(***************************************************************************)
\* What a call hands back: a JsonResults, or an exception that escapes (with
\* the JsonResults left in self.result, for reference).
Returned(original, fixed, errors) ==
  [kind |-> "result", exc |-> "", original |-> original, fixed |-> fixed,
   errors |-> errors]

Escaped(exc, original, fixed, errors) ==
  [kind |-> "raise", exc |-> exc, original |-> original, fixed |-> fixed,
   errors |-> errors]

\* _process_chunk, lines 558-566: the tolerant parse has ended.  A list or a
\* dict is serialised, any other value is stringified with str(); an
\* exception is tracked at index -1 and becomes the ValueError.
TolerantOutcome(chunk, stripped, p) ==
  [out |-> IF IsRaised(p.val)
             THEN Escaped("ValueError", chunk, stripped,
                          _track_error(p.errs, p.val.v, -1))
             ELSE Returned(chunk,
                           IF p.val.t \in {"list", "dict"}
                             THEN _standardize_json(p.val)
                             ELSE PyStrOf(p.val),
                           p.errs),
   cache |-> p.cache]

\* _process_chunk, lines 552-557: the strict parse has ended.  A rejection
\* is tracked under rough[e.pos]; when e.pos is len(rough) that subscript
\* raises IndexError inside the except clause, which nothing catches.
StrictOutcome(cache, self, chunk, stripped, scanned, rough, strict) ==
  IF strict.ok
    THEN [out |-> Returned(chunk, _standardize_json(strict.val), scanned),
          cache |-> cache]
  ELSE IF strict.pos >= Len(rough)
    THEN [out |-> Escaped("IndexError", chunk, stripped, scanned),
          cache |-> cache]
  ELSE TolerantOutcome(chunk, stripped,
         _cached_parse(cache, self, rough,
                       _track_error(scanned, At(rough, strict.pos), strict.pos)))

\* _process_chunk after the structural scan and the trim.
Trimmed(cache, self, chunk, stripped, scanned, rough) ==
  StrictOutcome(cache, self, chunk, stripped, scanned, rough, json_loads(rough))

\* _process_chunk on the stripped chunk.
Stripped(cache, self, chunk, stripped) ==
  Trimmed(cache, self, chunk, stripped, ScanErrors(stripped), Trim(stripped))

\* JsonFixer._process_chunk of the engine `self`, in a process whose cache
\* is `cache`: the outcome and the cache after the call.
_process_chunk(cache, self, chunk) == Stripped(cache, self, chunk, Strip(chunk))

(***************************************************************************)
(* The chunked path of load_json                                           *)
(***************************************************************************)
\* The size above which load_json takes the chunked path.
LargeInput == 10000

\* The default chunk_size of _split_into_chunks.
chunk_size == 5000

\* JsonFixer._split_into_chunks
_split_into_chunks(text) ==
  [k \in 1..((Len(text) + chunk_size - 1) \div chunk_size) |->
     Slice(text, (k - 1) * chunk_size, k * chunk_size)]

\* The except clause of _process_json_chunk: a JSONDecodeError gives {}.
ChunkValue(strict) == IF strict.ok THEN strict.val ELSE PyDict(<< >>)

\* _process_json_chunk
_process_json_chunk(chunk) == ChunkValue(json_loads(chunk))

\* iter(x) as a sequence, for the values that can be iterated: the
\* characters of a str, the items of a list, the keys of a dict.
Iterable(x) == x.t \in {"str", "list", "dict"}

IterOf(x) ==
  CASE x.t = "str" -> [i \in 1..Len(x.v) |-> PyStr(<<x.v[i]>>)]
    [] x.t = "list" -> x.v
    [] x.t = "dict" -> [i \in 1..Len(x.v) |-> x.v[i][1]]

Hashable(x) == x.t \notin {"list", "dict"}

RECURSIVE UpdateFromDict(_, _)
RECURSIVE UpdateFromItems(_, _)
RECURSIVE UpdateFromItem(_, _, _)

\* dict.update(other) for a dict: every pair of other is set, in order.
UpdateFromDict(pairs, other) ==
  IF other = << >> THEN PyDict(pairs)
  ELSE UpdateFromDict(DictSet(pairs, other[1][1], other[1][2]), Tail(other))

\* dict.update(other) for another iterable: every item must itself iterate
\* to exactly two objects, a hashable key and a value.
UpdateFromItem(pairs, kv, rest) ==
  IF Len(kv) # 2 THEN Raised("ValueError")
  ELSE IF ~Hashable(kv[1]) THEN Raised("TypeError")
  ELSE UpdateFromItems(DictSet(pairs, kv[1], kv[2]), rest)

UpdateFromItems(pairs, items) ==
  IF items = << >> THEN PyDict(pairs)
  ELSE IF ~Iterable(items[1]) THEN Raised("TypeError")
  ELSE UpdateFromItem(pairs, IterOf(items[1]), Tail(items))

\* merged.update(chunk): the dict after the call, or the exception.
dict_update(merged, chunk) ==
  IF ~Iterable(chunk) THEN Raised("TypeError")
  ELSE IF chunk.t = "dict" THEN UpdateFromDict(merged.v, chunk.v)
  ELSE UpdateFromItems(merged.v, IterOf(chunk))

\* The loop `for chunk in parsed_chunks: merged.update(chunk)`.
RECURSIVE MergeLoop(_, _)
MergeLoop(merged, parsed_chunks) ==
  IF IsRaised(merged) \/ parsed_chunks = << >> THEN merged
  ELSE MergeLoop(dict_update(merged, parsed_chunks[1]), Tail(parsed_chunks))

\* load_json, lines 452-458: the merge and the Result built from it.  An
\* exception of update() escapes; self.result is not touched on this path.
MergeOutcome(text, merged) ==
  IF IsRaised(merged) THEN Escaped(merged.v, text, << >>, NoErrors)
  ELSE Returned(text, json_dumps(merged), NoErrors)

\* pool.map(_process_json_chunk, chunks): the values in window order.
ParsedChunks(chunks) ==
  [k \in 1..Len(chunks) |-> _process_json_chunk(chunks[k])]

\* load_json in a process that may start a Pool: what a call on a fresh
\* engine hands back.
FreshLoad(text) ==
  IF Len(text) > LargeInput
    THEN MergeOutcome(text,
           MergeLoop(PyDict(<< >>), ParsedChunks(_split_into_chunks(text))))
    ELSE _process_chunk(<< >>, 0, text).out

(***************************************************************************)
(* batch_process: a Pool of daemonic worker processes runs                 *)
(* _parallel_process on every text.                                        *)
(***************************************************************************)
\* load_json inside a pool worker.  Pool workers are daemonic, and a
\* daemonic process may not start processes: on the chunked path Pool()
\* fails the assertion of multiprocessing.Process.start.
WorkerLoad(cache, self, text) ==
  IF Len(text) > LargeInput
    THEN [out |-> Escaped("AssertionError", text, << >>, NoErrors),
          cache |-> cache]
    ELSE _process_chunk(cache, self, text)

\* _parallel_process: a new engine for every text.
_parallel_process(cache, task, json_str) == WorkerLoad(cache, task, json_str)

(***************************************************************************)
(* State                                                                   *)
(***************************************************************************)
VARIABLES
  input,   \* the text handed to load_json
  src,     \* how the text was written, where it was built from a description
  pc,      \* "call": the entry point is about to run; "map": load_json has
           \* handed the windows to its pool; "batch": batch_process has
           \* handed the texts to its pool; "done": the call has ended
  ret,     \* the outcome of the call
  cache,   \* per process, the entries of its lru cache (process 0 calls)
  ncalls,  \* the number of load_json calls the engine has served
  jobs,    \* the items handed to pool.map
  outs,    \* per item, what its worker has sent back so far
  stack    \* the activations of the tolerant parser, innermost last, when its
           \* run is followed iteration by iteration (pc = "parse")

vars == <<input, src, pc, ret, cache, ncalls, jobs, outs, stack>>

\* No call has ended yet.
NoOutcome == [kind |-> "none", exc |-> "", original |-> << >>, fixed |-> << >>,
              errors |-> NoErrors]

\* The text stands for itself.
NoSource == [kind |-> "text"]

\* An item of pool.map that no worker has finished, and one that has.
Pending == [done |-> FALSE, val |-> NoOutcome]
Finished(val) == [done |-> TRUE, val |-> val]

\* The worker processes of a pool; process 0 is the caller's.
NumWorkers == 2
Workers == 1..NumWorkers
Procs == 0..NumWorkers

\* A new engine in the calling process, about to repair `text`.
Start(text, source) ==
  /\ input = text
  /\ src = source
  /\ pc = "call"
  /\ ret = NoOutcome
  /\ cache = [p \in Procs |-> << >>]
  /\ ncalls = 0
  /\ jobs = << >>
  /\ outs = << >>
  /\ stack = << >>

\* The call ends: its outcome is handed back and the process keeps its cache.
Deliver(r) ==
  /\ ret' = r.out
  /\ cache' = [cache EXCEPT ![0] = r.cache]

\* JsonFixer.load_json on a text of at most 10,000 characters: the whole of
\* _process_chunk.
LoadJson ==
  /\ pc = "call"
  /\ Len(input) <= LargeInput
  /\ Deliver(_process_chunk(cache[0], 0, input))
  /\ pc' = "done"
  /\ ncalls' = ncalls + 1
  /\ UNCHANGED <<input, src, jobs, outs, stack>>

\* load_json on a longer text, lines 447-450: the text is split and the
\* windows are handed to a pool.
SplitChunks ==
  /\ pc = "call"
  /\ Len(input) > LargeInput
  /\ jobs' = _split_into_chunks(input)
  /\ outs' = [k \in 1..Len(_split_into_chunks(input)) |-> Pending]
  /\ pc' = "map"
  /\ UNCHANGED <<input, src, ret, cache, ncalls, stack>>

\* A pool worker runs _process_json_chunk on window k and sends the value
\* back; the windows finish in any order.
ChunkWorker(k) ==
  /\ pc = "map"
  /\ ~outs[k].done
  /\ outs' = [outs EXCEPT ![k] = Finished(_process_json_chunk(jobs[k]))]
  /\ UNCHANGED <<input, src, pc, ret, cache, ncalls, jobs, stack>>

\* load_json, lines 452-458: pool.map has returned the values in window
\* order; they are merged and the Result is built.
MergeChunks ==
  /\ pc = "map"
  /\ \A k \in 1..Len(outs) : outs[k].done
  /\ ret' = MergeOutcome(input,
              MergeLoop(PyDict(<< >>), [k \in 1..Len(outs) |-> outs[k].val]))
  /\ pc' = "done"
  /\ ncalls' = ncalls + 1
  /\ UNCHANGED <<input, src, cache, jobs, outs, stack>>

\* batch_process, lines 83-85: the pool is made and the texts are handed to
\* pool.map.
BatchProcess ==
  /\ pc = "call_batch"
  /\ jobs' = input
  /\ outs' = [k \in 1..Len(input) |-> Pending]
  /\ pc' = "batch"
  /\ UNCHANGED <<input, src, ret, cache, ncalls, stack>>

\* The worker sends its outcome back and its process keeps its cache.
Report(w, k, r) ==
  /\ outs' = [outs EXCEPT ![k] = Finished(r.out)]
  /\ cache' = [cache EXCEPT ![w] = r.cache]

\* Worker process w runs _parallel_process on text k; any worker may take
\* any text that is still to do.  (With at most 4 * workers texts pool.map
\* hands the texts out one by one.)
BatchWorker(w, k) ==
  /\ pc = "batch"
  /\ ~outs[k].done
  /\ Report(w, k, _parallel_process(cache[w], k, jobs[k]))
  /\ UNCHANGED <<input, src, pc, ret, ncalls, jobs, stack>>

\* What pool.map hands to batch_process once every text is done: the list
\* of Results in input order, or the exception of a text that raised.
BatchOutcomes(results) ==
  IF \A k \in 1..Len(results) : results[k].val.kind = "result"
    THEN {[kind |-> "results", exc |-> "",
           results |-> [k \in 1..Len(results) |-> results[k].val]]}
    ELSE {[kind |-> "raise", exc |-> results[k].val.exc, results |-> << >>] :
            k \in {j \in 1..Len(results) : results[j].val.kind = "raise"}}

\* batch_process, lines 85-86: pool.map returns or raises.
BatchReturn ==
  /\ pc = "batch"
  /\ \A k \in 1..Len(outs) : outs[k].done
  /\ ret' \in BatchOutcomes(outs)
  /\ pc' = "done"
  /\ UNCHANGED <<input, src, cache, ncalls, jobs, outs, stack>>

\* The caller hands the same engine another text.
NextCall(text) ==
  /\ pc = "done"
  /\ input' = text
  /\ ret' = NoOutcome
  /\ pc' = "call"
  /\ UNCHANGED <<src, cache, ncalls, jobs, outs, stack>>

(***************************************************************************)
(* Spec: one load_json call of a new engine on every short text            *)
(***************************************************************************)
\* The characters short texts are made of: the delimiters the scan and the
\* parsers act on, both quote styles, a letter, a digit and a space.
Alphabet == {"{", "}", "[", "]", ":", ",", "\"", "'", "a", "1", " "}

\* The longest short text.
MaxLen == 4

\* The sequences of at most n elements of S.
SeqsUpTo(S, n) == UNION {[1..k -> S] : k \in 0..n}

ShortTexts == SeqsUpTo(Alphabet, MaxLen)

Init == \E t \in ShortTexts : Start(t, NoSource)

Next == LoadJson

Spec == Init /\ [][Next]_vars

(***************************************************************************)
(* SpecRepair: one load_json call of a new engine on every text of three   *)
(* families, each built from a description that is kept in src: flat       *)
(* objects and arrays in the loose styles of the test cases, and the       *)
(* canonical serialisations of small values.                               *)
(***************************************************************************)
KeyWords == {<<"a">>, <<"b">>}

ValueWords == {<<"b">>, <<"N", "a", "N">>}

Ints == {0, 12}

\* A word is written bare or between two quotes of one kind.
QuoteStyles == {<< >>, <<"'">>, <<"\"">>}

WordNode(w, q) == [k |-> "word", w |-> w, q |-> q, n |-> 0, items |-> << >>]
IntNode(n) == [k |-> "int", w |-> << >>, q |-> << >>, n |-> n, items |-> << >>]
ArrayNode(items) == [k |-> "array", w |-> << >>, q |-> << >>, n |-> 0, items |-> items]

Scalars ==
  {WordNode(w, q) : w \in ValueWords, q \in QuoteStyles} \cup {IntNode(n) : n \in Ints}

\* The most members of an object, the most items of an array, and the
\* deepest nesting of an array inside the outer one.
MaxMembers == 2
MaxItems == 2
MaxDepth == 1

Members == [key : KeyWords, kq : QuoteStyles, val : Scalars]

DistinctKeys(ms) == \A i, j \in 1..Len(ms) : i # j => ms[i].key # ms[j].key

\* "key : value" members between braces; colon is the text between key and
\* value, sep the text between two members, trail the text before '}'.
ObjectSources(n) ==
  [kind : {"object"},
   members : {ms \in SeqsUpTo(Members, n) : DistinctKeys(ms)},
   colon : {<<":">>, <<" ", ":", " ">>},
   sep : {<<",">>, <<" ">>, <<",", ",">>, <<",", " ">>},
   trail : {<< >>, <<",">>}]

RECURSIVE ArrayTrees(_, _)
ArrayTrees(d, n) ==
  {ArrayNode(items) :
     items \in SeqsUpTo(IF d = 0 THEN Scalars ELSE Scalars \cup ArrayTrees(d - 1, n), n)}

ArraySources(d, n) ==
  [kind : {"array"}, tree : ArrayTrees(d, n), sep : {<<",">>, <<",", " ">>}]

JsonScalars ==
  {PyInt(1), PyStr(<<"a">>), PyBool(TRUE), PyNone, PyFloat(<<"1", ".", "5">>)}

\* The lists of at most n values of vs, and the objects that give some of
\* the keys "a", "b" (in that order) a value of vs.
Containers(vs, n) ==
  {PyList(items) : items \in SeqsUpTo(vs, n)}
  \cup {PyDict(<< >>)}
  \cup {PyDict(<< <<PyStr(<<"a">>), v>> >>) : v \in vs}
  \cup {PyDict(<< <<PyStr(<<"a">>), v>>, <<PyStr(<<"b">>), w>> >>) : v \in vs, w \in vs}

RECURSIVE JsonValues(_, _)
JsonValues(d, n) ==
  IF d = 0 THEN JsonScalars
  ELSE JsonScalars \cup Containers(JsonValues(d - 1, n), n)

CanonicalSources(d, n) == [kind : {"canonical"}, value : JsonValues(d, n)]

\* The text of a description.
RenderScalar(x) == IF x.k = "int" THEN IntStr(x.n) ELSE x.q \o x.w \o x.q

RenderMember(m, colon) == m.kq \o m.key \o m.kq \o colon \o RenderScalar(m.val)

RECURSIVE RenderMembers(_, _, _)
RenderMembers(ms, colon, sep) ==
  IF ms = << >> THEN << >>
  ELSE RenderMember(ms[1], colon) \o (IF Len(ms) > 1 THEN sep ELSE << >>)
       \o RenderMembers(Tail(ms), colon, sep)

RECURSIVE RenderTree(_, _)
RECURSIVE RenderItems(_, _)
RenderTree(x, sep) ==
  IF x.k = "array" THEN <<"[">> \o RenderItems(x.items, sep) \o <<"]">>
  ELSE RenderScalar(x)

RenderItems(items, sep) ==
  IF items = << >> THEN << >>
  ELSE RenderTree(items[1], sep) \o (IF Len(items) > 1 THEN sep ELSE << >>)
       \o RenderItems(Tail(items), sep)

Render(d) ==
  CASE d.kind = "object" ->
         <<"{">> \o RenderMembers(d.members, d.colon, d.sep) \o d.trail \o <<"}">>
    [] d.kind = "array" -> RenderTree(d.tree, d.sep)
    [] d.kind = "canonical" -> json_dumps(d.value)

\* The value a description stands for: a word is a string, an integer a
\* number.
RECURSIVE ValueOf(_)
ValueOf(x) ==
  CASE x.k = "int" -> PyInt(x.n)
    [] x.k = "word" -> PyStr(x.w)
    [] x.k = "array" -> PyList([i \in 1..Len(x.items) |-> ValueOf(x.items[i])])

ObjectOf(ms) == PyDict([i \in 1..Len(ms) |-> <<PyStr(ms[i].key), ValueOf(ms[i].val)>>])

InitRepair ==
  \/ \E d \in ObjectSources(MaxMembers) : Start(Render(d), d)
  \/ \E d \in ArraySources(MaxDepth, MaxItems) : Start(Render(d), d)
  \/ \E d \in CanonicalSources(MaxDepth + 1, MaxItems) : Start(Render(d), d)

SpecRepair == InitRepair /\ [][Next]_vars

(***************************************************************************)
(* Texts with a bare keyword                                               *)
(***************************************************************************)
UpperCase == <<"A", "B", "C", "D", "E", "F", "G", "H", "I", "J", "K", "L", "M",
               "N", "O", "P", "Q", "R", "S", "T", "U", "V", "W", "X", "Y", "Z">>
LowerCase == <<"a", "b", "c", "d", "e", "f", "g", "h", "i", "j", "k", "l", "m",
               "n", "o", "p", "q", "r", "s", "t", "u", "v", "w", "x", "y", "z">>

\* str.lower() on the ASCII range.
LowerChar(ch) ==
  IF \E k \in 1..26 : UpperCase[k] = ch
    THEN LowerCase[CHOOSE k \in 1..26 : UpperCase[k] = ch]
    ELSE ch

Lower(s) == [i \in 1..Len(s) |-> LowerChar(s[i])]

\* The number branch of _is_special_value: a ValueError counts as None.
SpecialNumber(n) == IF IsRaised(n) THEN PyNone ELSE n

\* _is_special_value on a stripped, lower-cased value.
SpecialValue(value) ==
  CASE value = <<"t", "r", "u", "e">> -> PyBool(TRUE)
    [] value = <<"f", "a", "l", "s", "e">> -> PyBool(FALSE)
    [] value = <<"n", "u", "l", "l">> -> PyNone
    [] OTHER -> SpecialNumber(IF value # << >> /\ AllDigits(value)
                                THEN IntOf(value) ELSE FloatOf(value))

\* JsonFixer._is_special_value.  No method of the class calls it.
_is_special_value(value) == SpecialValue(Lower(Strip(value)))

\* The spellings of the three keywords: lower case, capitalised, upper case.
KeywordWords ==
  {<<"t", "r", "u", "e">>, <<"T", "r", "u", "e">>, <<"T", "R", "U", "E">>,
   <<"f", "a", "l", "s", "e">>, <<"F", "a", "l", "s", "e">>,
   <<"F", "A", "L", "S", "E">>,
   <<"n", "u", "l", "l">>, <<"N", "u", "l", "l">>, <<"N", "U", "L", "L">>}

\* An object whose key "a" is bare or single-quoted and whose value is a
\* bare keyword, alone or followed by the member b:12.
KeywordObjects ==
  [kind : {"keyword"}, shape : {"object"}, word : KeywordWords,
   kq : {<< >>, <<"'">>}, colon : {<<":">>, <<":", " ">>}, more : BOOLEAN]

\* An array of a bare keyword and the bare word "a", in either order.
KeywordArrays ==
  [kind : {"keyword"}, shape : {"array"}, word : KeywordWords,
   sep : {<<",">>, <<",", " ">>}, first : BOOLEAN]

RenderKeyword(d) ==
  IF d.shape = "object"
    THEN <<"{">> \o d.kq \o <<"a">> \o d.kq \o d.colon \o d.word
         \o (IF d.more THEN <<",", "b", ":", "1", "2">> ELSE << >>) \o <<"}">>
    ELSE <<"[">> \o (IF d.first THEN d.word \o d.sep \o <<"a">>
                     ELSE <<"a">> \o d.sep \o d.word) \o <<"]">>

\* The value a keyword text stands for: the keyword's slot holds its boolean,
\* and a null slot is left out.
KeywordSlot(k, v) == IF v = PyNone THEN << >> ELSE << <<PyStr(k), v>> >>
KeywordItem(v) == IF v = PyNone THEN << >> ELSE <<v>>

KeywordValue(d) ==
  IF d.shape = "object"
    THEN PyDict(KeywordSlot(<<"a">>, _is_special_value(d.word))
                \o (IF d.more THEN << <<PyStr(<<"b">>), PyInt(12)>> >> ELSE << >>))
    ELSE PyList(IF d.first
                  THEN KeywordItem(_is_special_value(d.word)) \o <<PyStr(<<"a">>)>>
                  ELSE <<PyStr(<<"a">>)>> \o KeywordItem(_is_special_value(d.word)))

InitKeyword ==
  \/ \E d \in KeywordObjects : Start(RenderKeyword(d), d)
  \/ \E d \in KeywordArrays : Start(RenderKeyword(d), d)

SpecKeyword == InitKeyword /\ [][Next]_vars

(***************************************************************************)
(* SpecCache: one engine serves several load_json calls                    *)
(***************************************************************************)
CacheAlphabet == {"[", "\"", "a", "1"}

\* The longest text and the most calls.
MaxCacheLen == 3
MaxCalls == 2

CacheTexts == SeqsUpTo(CacheAlphabet, MaxCacheLen)

InitCache == \E t \in CacheTexts : Start(t, NoSource)

NextCache ==
  \/ LoadJson
  \/ \E t \in CacheTexts : ncalls < MaxCalls /\ NextCall(t)

SpecCache == InitCache /\ [][NextCache]_vars

(***************************************************************************)
(* SpecChunk: one load_json call of a new engine on texts of three         *)
(* windows, and on texts of exactly 10,000 characters                      *)
(***************************************************************************)
\* body followed by spaces up to n characters.
Pad(body, n) == body \o [i \in 1..(n - Len(body)) |-> " "]

\* What a window holds before its padding: two objects that share a key,
\* an object only the tolerant parser accepts, an array and a number.
WindowBodies ==
  { <<"{", "\"", "a", "\"", ":", "1", "}">>,
    <<"{", "\"", "a", "\"", ":", "2", ",", "\"", "b", "\"", ":", "3", "}">>,
    <<"{", "a", ":", "1", "}">>,
    <<"[", "1", "]">>,
    <<"5">> }

\* Two full windows and a short third one.
WindowTexts(bodies) ==
  {Pad(b1, chunk_size) \o Pad(b2, chunk_size) \o b3 :
     b1 \in bodies, b2 \in bodies, b3 \in bodies}

\* Texts of len(text) == n.
PaddedTexts(bodies, n) == {Pad(b, n) : b \in bodies}

InitChunk ==
  \/ \E t \in WindowTexts(WindowBodies) : Start(t, NoSource)
  \/ \E t \in PaddedTexts(WindowBodies, LargeInput) : Start(t, NoSource)

NextChunk ==
  \/ LoadJson
  \/ SplitChunks
  \/ \E k \in 1..Len(outs) : ChunkWorker(k)
  \/ MergeChunks

SpecChunk == InitChunk /\ [][NextChunk]_vars

(***************************************************************************)
(* SpecBatch: one batch_process call                                       *)
(***************************************************************************)
\* The most texts of a batch.
MaxBatch == 3

\* A text the tolerant parser repairs, a strictly valid one, one the repair
\* fails on, and one of 10,001 characters.
BatchTexts(n) ==
  { <<"{", "a", ":", "\"", "b">>,
    <<"[", "1", "]">>,
    <<"{", "1", ":", "2", "}">>,
    Pad(<<"{", "}">>, n) }

InitBatch ==
  \E js \in SeqsUpTo(BatchTexts(LargeInput + 1), MaxBatch) :
    /\ input = js
    /\ src = NoSource
    /\ pc = "call_batch"
    /\ ret = NoOutcome
    /\ cache = [p \in Procs |-> << >>]
    /\ ncalls = 0
    /\ jobs = << >>
    /\ outs = << >>
    /\ stack = << >>

NextBatch ==
  \/ BatchProcess
  \/ \E w \in Workers : \E k \in 1..Len(outs) : BatchWorker(w, k)
  \/ BatchReturn

SpecBatch == InitBatch /\ [][NextBatch]_vars

(***************************************************************************)
(* SpecParse: the tolerant parser followed one loop iteration at a time    *)
(* (the operators above compute a whole call at once).  An activation of   *)
(* one of the five parsers is a frame: fn names the parser, c is the state *)
(* of its loop, wait says what the call made by the current iteration is   *)
(* to deliver ("" when no call is under way), at is self.index when that   *)
(* iteration began, stalled says that the last iteration left self.index   *)
(* where it was and stuck that two iterations in a row did.                *)
(***************************************************************************)
Frame(fn, c) ==
  [fn |-> fn, c |-> c, wait |-> "", at |-> 0, stalled |-> FALSE, stuck |-> FALSE]

\* self.index as the activation sees it.
Cursor(f) == IF f.fn = "string" THEN f.c.i ELSE f.c.index

\* parse() is entered.
ParseEntry(index, errs) ==
  Frame("parse", [index |-> index, errs |-> errs, done |-> FALSE, val |-> PyNone])

\* parse_object, lines 223-225, entered with the index past '{'.
ObjectEntry(index, errs) ==
  Frame("object", [index |-> index, errs |-> errs, obj |-> << >>,
                   expect_key |-> TRUE, current_key |-> PyNone,
                   done |-> FALSE, val |-> PyNone])

\* parse_array, line 260, entered with the index past '['.
ArrayEntry(index, errs) ==
  Frame("array", [index |-> index, errs |-> errs, arr |-> << >>,
                  done |-> FALSE, val |-> PyNone])

\* parse_string, lines 345-359: at the end of the text it returns at once;
\* an opening quote is stepped over.
StringEntry(s, index, errs) ==
  Frame("string",
        [i |-> IF index < Len(s) /\ At(s, index) \in STRING_DELIMITERS
                 THEN index + 1 ELSE index,
         string |-> << >>, escaped |-> FALSE, found_end |-> FALSE,
         done |-> index >= Len(s), start |-> index, errs |-> errs,
         is_quoted |-> index < Len(s) /\ At(s, index) \in STRING_DELIMITERS])

\* parse_number, line 418.
NumberEntry(index, errs) ==
  Frame("number", [index |-> index, start |-> index, errs |-> errs,
                   done |-> FALSE])

\* The condition of the activation's while loop.
Iterates(s, f) ==
  IF f.fn = "number"
    THEN /\ f.c.index < Len(s)
         /\ At(s, f.c.index) \in Digits \cup {".", "-", "e", "E"}
    ELSE Cursor(f) < Len(s)

\* An iteration that calls nothing.
NoCall == [fn |-> "none"]

\* The call an iteration of parse makes: lines 207-216.
ParseCall(s, c) ==
  IF At(s, c.index) \in PySpace THEN NoCall
  ELSE IF At(s, c.index) = "{" THEN ObjectEntry(c.index + 1, c.errs)
  ELSE IF At(s, c.index) = "[" THEN ArrayEntry(c.index + 1, c.errs)
  ELSE IF At(s, c.index) \in STRING_DELIMITERS \cup Letters
    THEN StringEntry(s, c.index, c.errs)
  ELSE IF At(s, c.index) \in Digits \cup {".", "-"}
    THEN NumberEntry(c.index, c.errs)
  ELSE NoCall

\* The call an iteration of parse_object makes: parse_string for the key
\* (line 239), parse for the value (line 244).
ObjectCall(s, c) ==
  IF At(s, c.index) \in PySpace \cup {",", "}"} THEN NoCall
  ELSE IF c.expect_key THEN StringEntry(s, c.index, c.errs)
  ELSE IF At(s, c.index) = ":" THEN NoCall
  ELSE ParseEntry(c.index, c.errs)

\* The call an iteration of parse_array makes once the whitespace is
\* skipped up to i1: parse for the element (line 270).
ArrayCallAt(s, c, i1) ==
  IF i1 >= Len(s) \/ At(s, i1) = "]" THEN NoCall ELSE ParseEntry(i1, c.errs)

ArrayCall(s, c) == ArrayCallAt(s, c, SkipWhile(s, c.index, PySpace))

Callee(s, f) ==
  CASE f.fn = "parse" -> ParseCall(s, f.c)
    [] f.fn = "object" -> ObjectCall(s, f.c)
    [] f.fn = "array" -> ArrayCall(s, f.c)
    [] OTHER -> NoCall

\* The mutant of ParseStep: a character that starts no value is not stepped
\* over.
ParseStep_no_advance(s, c) ==
  IF c.index >= Len(s) THEN [c EXCEPT !.done = TRUE, !.val = PyNone]
  ELSE IF At(s, c.index) \in PySpace THEN [c EXCEPT !.index = @ + 1]
  ELSE c

\* An iteration of parse that calls nothing, its condition included:
\* whitespace (line 204) and a character that starts no value (line 218)
\* are stepped over; at the end of the text parse returns None.
ParseStep(s, c) ==
  IF c.index >= Len(s) THEN [c EXCEPT !.done = TRUE, !.val = PyNone]
  ELSE [c EXCEPT !.index = @ + 1]

\* An iteration of the loop of parse_number, its condition included.
NumberStep(s, c) ==
  IF c.index < Len(s) /\ At(s, c.index) \in Digits \cup {".", "-", "e", "E"}
    THEN [c EXCEPT !.index = @ + 1]
    ELSE [c EXCEPT !.done = TRUE]

\* An iteration that calls nothing, or the end of the loop.
LoopStep(s, f) ==
  CASE f.fn = "parse" -> ParseStep(s, f.c)
    [] f.fn = "object" -> ObjectStep(s, f.c)
    [] f.fn = "array" -> ArrayStep(s, f.c)
    [] f.fn = "string" -> StringStep(s, f.c.is_quoted, At(s, f.c.start), f.c)
    [] f.fn = "number" -> NumberStep(s, f.c)

\* What an activation whose loop has ended returns.
FrameResult(s, f) ==
  CASE f.fn = "string" ->
         IF f.c.start >= Len(s) THEN R(PyStr(<< >>), f.c.start, f.c.errs)
         ELSE StringEnd(s, f.c.start, f.c.errs, f.c.is_quoted, f.c)
    [] f.fn = "number" -> NumberSlice(s, f.c.start, f.c.index, f.c.errs)
    [] OTHER -> LoopResult(f.c)

\* The iteration that made a call goes on with what the call returned:
\* parse returns it, parse_object cleans the key up or stores the value,
\* parse_array appends the element.
Resume(s, f, r) ==
  CASE f.fn = "parse" ->
         [f.c EXCEPT !.index = r.idx, !.errs = r.errs, !.val = r.val,
                     !.done = TRUE]
    [] f.fn = "object" ->
         IF f.wait = "key" THEN ObjectKey(f.c, r) ELSE ObjectMember(f.c, r)
    [] f.fn = "array" -> ArrayItem(s, f.c, r)

\* The iteration that began at index `at` ends with the loop state c.
Advanced(f, at, g) ==
  [g EXCEPT !.stalled = Cursor(g) <= at,
            !.stuck = f.stuck \/ (f.stalled /\ Cursor(g) <= at)]

Iterated(f, at, c) == Advanced(f, at, [f EXCEPT !.c = c, !.wait = ""])

\* The innermost activation and the ones below it.
Top == stack[Len(stack)]
Below(n) == SubSeq(stack, 1, Len(stack) - n)

\* The innermost loop runs an iteration that calls nothing, or ends; c is
\* the loop state after it.
ParserIterate ==
  /\ pc = "parse"
  /\ ~Top.c.done
  /\ Iterates(input, Top) => Callee(input, Top).fn = "none"
  /\ \E c \in {LoopStep(input, Top)} :
       stack' = Append(Below(1),
                       IF Iterates(input, Top)
                         THEN Iterated(Top, Cursor(Top), c)
                         ELSE [Top EXCEPT !.c = c])
  /\ UNCHANGED <<input, src, pc, ret, cache, ncalls, jobs, outs>>

\* The innermost loop starts an iteration that calls a parser.
ParserCall ==
  /\ pc = "parse"
  /\ ~Top.c.done
  /\ Iterates(input, Top)
  /\ Callee(input, Top).fn # "none"
  /\ stack' = Below(1) \o
                << [Top EXCEPT !.at = Cursor(Top),
                               !.wait = IF Top.fn = "object" /\ Top.c.expect_key
                                          THEN "key" ELSE "value"],
                   Callee(input, Top) >>
  /\ UNCHANGED <<input, src, pc, ret, cache, ncalls, jobs, outs>>

\* The innermost parser returns r to the iteration that called it, which
\* goes on to its end with the loop state c.
ParserReturn ==
  /\ pc = "parse"
  /\ Len(stack) > 1
  /\ Top.c.done
  /\ \E r \in {FrameResult(input, Top)} :
       \E c \in {Resume(input, stack[Len(stack) - 1], r)} :
         stack' = Append(Below(2),
                         Iterated(stack[Len(stack) - 1],
                                  stack[Len(stack) - 1].at, c))
  /\ UNCHANGED <<input, src, pc, ret, cache, ncalls, jobs, outs>>

\* The outermost parse returns to _cached_parse.
ParserFinish ==
  /\ pc = "parse"
  /\ Len(stack) = 1
  /\ Top.c.done
  /\ ret' = FrameResult(input, Top)
  /\ stack' = << >>
  /\ pc' = "done"
  /\ UNCHANGED <<input, src, cache, ncalls, jobs, outs>>

\* The characters of the texts parsed: the delimiters the parsers act on, a
\* quote, a letter, a digit and a space.
ParseAlphabet == {"{", "}", "[", "]", ":", ",", "\"", "a", "1", " "}

\* The longest text parsed.
MaxParseLen == 3

ParseTexts == SeqsUpTo(ParseAlphabet, MaxParseLen)

\* A new engine whose _cached_parse has not been called yet.
InitParse ==
  /\ input = << >>
  /\ src = NoSource
  /\ pc = "text"
  /\ ret = NoOutcome
  /\ cache = [p \in Procs |-> << >>]
  /\ ncalls = 0
  /\ jobs = << >>
  /\ outs = << >>
  /\ stack = << >>

\* _cached_parse, lines 91-93: parse() starts at index 0 of json_str.
ParserStart ==
  /\ pc = "text"
  /\ \E json_str \in ParseTexts : input' = json_str
  /\ stack' = <<ParseEntry(0, NoErrors)>>
  /\ pc' = "parse"
  /\ UNCHANGED <<src, ret, cache, ncalls, jobs, outs>>

NextParse ==
  \/ ParserStart
  \/ ParserIterate
  \/ ParserCall
  \/ ParserReturn
  \/ ParserFinish

\* The parser is sequential code: it takes its next step.
SpecParse == InitParse /\ [][NextParse]_vars /\ WF_vars(NextParse)

(***************************************************************************)
(* Claims                                                                  *)
(***************************************************************************)
\* Python's own strict parser accepts the text as one JSON document.  (It
\* also accepts NaN and Infinity, so a text it rejects is not JSON by any
\* reading.)
IsJsonDocument(t) == json_loads(t).ok

\* C1: whenever load_json returns a Result, Result.fixed is the empty string
\* or a syntactically valid JSON document, also when the tolerant parse
\* yields a scalar that is stringified directly.
C1_FixedIsEmptyOrJson ==
  (pc = "done" /\ ret.kind = "result") =>
    (ret.fixed = << >> \/ IsJsonDocument(ret.fixed))

\* C2: for a text that is the compact canonical serialization of a JSON
\* value (scalar, array or object, nested or not), load_json returns a
\* Result whose fixed is that text, character for character.
C2_CanonicalIsFixpoint ==
  (pc = "done" /\ src.kind = "canonical") =>
    (ret.kind = "result" /\ ret.fixed = input)

\* C3: load_json either returns a Result or fails with ValueError
\* ("Failed to parse JSON"); no other failure escapes, also when the strict
\* parse rejects the trimmed text at a position equal to its length.
C3_OnlyRepairFailedEscapes ==
  pc = "done" => (ret.kind = "result" \/ ret.exc = "ValueError")

\* C4: for a flat object text of "key : value" members with distinct word
\* keys, whose values are words or integers and whose members are separated
\* by spaces and/or commas, fixed is the compact JSON object that maps each
\* key to its value in source order, words as strings, integers as numbers.
C4_ObjectRepair ==
  (pc = "done" /\ src.kind = "object") =>
    (ret.kind = "result" /\ ret.fixed = json_dumps(ObjectOf(src.members)))

\* C5: for an array text, nested or not, of words and integers separated by
\* commas, fixed is the compact JSON array of the same nesting with the same
\* elements in the same order, words as strings, integers as numbers.
C5_ArrayCoercion ==
  (pc = "done" /\ src.kind = "array") =>
    (ret.kind = "result" /\ ret.fixed = json_dumps(ValueOf(src.tree)))

\* C6: the tolerant Value Parser never raises, so no call takes the
\* "repair failed" path because of malformed input (for example an object
\* whose key position holds an unquoted number).
C6_ValueParserNeverRaises ==
  pc = "done" => ~(ret.kind = "raise" /\ ret.exc = "ValueError")

\* Every text of the batch is one a new engine repairs on its own.
EachRepairsAlone == \A k \in 1..Len(input) : FreshLoad(input[k]).kind = "result"

\* C7: for a list of texts each of which a new engine repairs, batch_process
\* returns one Result per text in input order, and the k-th Result (original,
\* fixed and error map) is the one a new engine returns for the k-th text
\* alone, whichever worker took which text and in whichever order.
C7_BatchIsFreshInOrder ==
  (pc = "done" /\ EachRepairsAlone) =>
    /\ ret.kind = "results"
    /\ Len(ret.results) = Len(input)
    /\ \A k \in 1..Len(input) : ret.results[k] = FreshLoad(input[k])

\* C8: every Result an engine returns, on any call of a sequence of calls,
\* is (fixed and error map alike) the Result an engine without the cache
\* returns for that text.
C8_CacheIsTransparent ==
  (pc = "done" /\ ret.kind = "result") => ret = FreshLoad(input)

\* The windows of the text that strictly parse, in window order.
RECURSIVE ParsedWindows(_)
ParsedWindows(chunks) ==
  IF chunks = << >> THEN << >>
  ELSE (IF json_loads(chunks[1]).ok THEN <<json_loads(chunks[1]).val>> ELSE << >>)
       \o ParsedWindows(Tail(chunks))

\* The key union of objects, a later one overwriting an earlier one.
RECURSIVE KeyUnion(_, _)
KeyUnion(pairs, objects) ==
  IF objects = << >> THEN PyDict(pairs)
  ELSE KeyUnion(UpdateFromDict(pairs, objects[1].v).v, Tail(objects))

AllObjects(vals) == \A k \in 1..Len(vals) : vals[k].t = "dict"

\* C9: a text of exactly 10,000 characters takes the normal pipeline; for a
\* longer text load_json returns a Result (whatever the windows parse to),
\* and where the windows that strictly parse are objects its fixed is the
\* canonical serialization of their key union in window order.
C9_OversizedMerge ==
  /\ Len(input) <= LargeInput => jobs = << >>
  /\ (pc = "done" /\ Len(input) > LargeInput) =>
       /\ ret.kind = "result"
       /\ AllObjects(ParsedWindows(_split_into_chunks(input))) =>
            ret.fixed =
              json_dumps(KeyUnion(<< >>, ParsedWindows(_split_into_chunks(input))))

\* The quotes the structural scan of the stripped input leaves open.
OpenQuotes(t) == ScanPrefix(Strip(t), Len(Strip(t))).quote_stack

\* The list recorded P somewhere before len(stripped text).
RecordedInOrder(lst, P, n) ==
  \E i, j \in 1..Len(lst) : i < j /\ lst[i] = P /\ lst[j] = n

\* C10: if the structural scan of the stripped text ends with a quote still
\* open that was opened at position P, the returned error map lists, under
\* that quote character, P and then len(stripped text).
C10_UnterminatedQuoteReported ==
  (pc = "done" /\ ret.kind = "result") =>
    \A k \in 1..Len(OpenQuotes(input)) :
      LET q == OpenQuotes(input)[k]
      IN  /\ q[1] \in DOMAIN ret.errors
          /\ RecordedInOrder(ret.errors[q[1]], q[2], Len(Strip(input)))

\* C10: a call has returned a Result for a text whose scan ended inside a
\* quote.
C10_Witness ==
  pc = "done" /\ ret.kind = "result" /\ OpenQuotes(input) # << >>

\* self.index while the parser runs, and where the parser left it.
CurIndex == IF pc = "parse" THEN Cursor(Top) ELSE ret.idx

\* C11: a tolerant parse started at index 0 terminates; while it runs the
\* index never decreases, and no loop of parse, parse_object, parse_array,
\* parse_string or parse_number runs two iterations in a row that leave the
\* index where it was.
C11_ParseTerminates ==
  /\ <>(pc = "done")
  /\ [][pc = "parse" => CurIndex' >= CurIndex]_vars
  /\ [](pc = "parse" => \A k \in 1..Len(stack) : ~stack[k].stuck)

\* C11: an iteration has left the index where it was and its loop is about
\* to run another one.
C11_Witness ==
  pc = "parse" /\ Top.stalled /\ ~Top.c.done /\ Iterates(input, Top)

\* w is the substring of t from the first `open` through the last `close`,
\* both included.
IsWindow(w, t, open, close) ==
  \E a, b \in 1..Len(t) :
    /\ a <= b
    /\ t[a] = open /\ \A i \in 1..(a - 1) : t[i] # open
    /\ t[b] = close /\ \A i \in (b + 1)..Len(t) : t[i] # close
    /\ w = SubSeq(t, a, b)

\* C12: the text handed to the strict and the tolerant parser is the
\* substring of the stripped text from the first '[' through the last ']'
\* when the stripped text holds more '[' than '{'; otherwise the substring
\* from the first '{' through the last '}' when it holds both; otherwise the
\* stripped text itself.  A trimmed text is never empty.
C12_TrimWindow ==
  pc = "done" =>
    IF Count(Strip(input), "[") > Count(Strip(input), "{")
      THEN IsWindow(Trim(Strip(input)), Strip(input), "[", "]")
    ELSE IF Count(Strip(input), "{") >= 1 /\ Count(Strip(input), "}") >= 1
      THEN IsWindow(Trim(Strip(input)), Strip(input), "{", "}")
    ELSE Trim(Strip(input)) = Strip(input)

\* The state of the structural scan of the stripped input before and after
\* the character at index i.
ScanBefore(i) == ScanPrefix(Strip(input), i)
ScanAfter(i) == ScanPrefix(Strip(input), i + 1)

\* The indexes of the colons the scan meets outside quotes.
OutsideColons ==
  {i \in 0..(Len(Strip(input)) - 1) :
     At(Strip(input), i) = ":" /\ ScanBefore(i).quote_stack = << >>}

\* The scan step at index i appended i to the list of ':' and recorded
\* nothing else; the scan step at index i recorded nothing.
ColonRecorded(i) ==
  ScanAfter(i).errors = add_error(ScanBefore(i).errors, ":", i)

NothingRecorded(i) == ScanAfter(i).errors = ScanBefore(i).errors

\* C13 as stated: a ':' outside quotes is recorded at its position exactly
\* when the "expecting key" flag is true at that character, and not when
\* the flag is false; the flag is false afterwards.
C13_ColonRecordedWhenExpectingKey ==
  pc = "done" =>
    \A i \in OutsideColons :
      /\ ScanBefore(i).key_mode => ColonRecorded(i)
      /\ ~ScanBefore(i).key_mode => NothingRecorded(i)
      /\ ~ScanAfter(i).key_mode

\* C13 amended: a ':' outside quotes is recorded at its position exactly
\* when the "expecting key" flag is false at that character (a colon has
\* been accepted since the last ',' or '{'), and not when the flag is true;
\* in both cases the scan goes on with its stacks as they were and the flag
\* is false afterwards.
C13_ColonRecordedWhenExpectingValue ==
  pc = "done" =>
    \A i \in OutsideColons :
      /\ ~ScanBefore(i).key_mode => ColonRecorded(i)
      /\ ScanBefore(i).key_mode => NothingRecorded(i)
      /\ ~ScanAfter(i).key_mode
      /\ ScanAfter(i).quote_stack = ScanBefore(i).quote_stack
      /\ ScanAfter(i).bracket_stack = ScanBefore(i).bracket_stack

\* C13: the scan of a returned call met a colon with the flag true and a
\* colon with the flag false.
C13_Witness ==
  /\ pc = "done"
  /\ \E i \in OutsideColons : ScanBefore(i).key_mode
  /\ \E i \in OutsideColons : ~ScanBefore(i).key_mode

\* C14: for a text whose object-value or array-element position holds an
\* unquoted true, false or null in any letter case, fixed carries the boolean
\* in that position (never the keyword as a string), and a null slot is left
\* out: {a:true} repairs to {"a":true}.
C14_BareKeywords ==
  (pc = "done" /\ src.kind = "keyword") =>
    (ret.kind = "result" /\ ret.fixed = json_dumps(KeywordValue(src)))

\* The error map the structural scan and its two closing loops leave for the
\* stripped input.
Scanned == ScanErrors(Strip(input))

NonDecreasing(ps) == \A a, b \in 1..Len(ps) : a <= b => ps[a] <= ps[b]

IsPrefix(p, q) == Len(p) <= Len(q) /\ SubSeq(q, 1, Len(p)) = p

\* Every list of `before` is the head of the list of the same character in
\* `after`: records were appended, none removed or replaced.
Extends(before, after) ==
  /\ DOMAIN before \subseteq DOMAIN after
  /\ \A ch \in DOMAIN before : IsPrefix(before[ch], after[ch])

\* Each scan step, the closing loops and the rest of the call only append.
AppendOnly ==
  /\ \A i \in 0..(Len(Strip(input)) - 1) : Extends(ScanBefore(i).errors, ScanAfter(i).errors)
  /\ Extends(ScanPrefix(Strip(input), Len(Strip(input))).errors, Scanned)
  /\ Extends(Scanned, ret.errors)

\* C15 as stated: in every Result the positions the structural scan recorded
\* under one character are non-decreasing, for every character, also when
\* several mismatched closers pop nested openers of one kind; and every
\* record is appended, replacing nothing.
C15_PositionsNonDecreasing ==
  (pc = "done" /\ ret.kind = "result") =>
    /\ \A ch \in DOMAIN Scanned : NonDecreasing(Scanned[ch])
    /\ AppendOnly

\* C15 amended: in every Result every record is appended, replacing nothing,
\* and the positions the structural scan recorded under one character are
\* non-decreasing for every character other than the openers '[' and '{'
\* (an opener is recorded at its own, earlier position when its mismatched
\* closer is met, so nested openers are listed innermost first).
C15_RecordsAppendInScanOrder ==
  (pc = "done" /\ ret.kind = "result") =>
    /\ \A ch \in DOMAIN Scanned \ {"[", "{"} : NonDecreasing(Scanned[ch])
    /\ AppendOnly

\* A Result for a text whose mismatched closers popped nested openers of one
\* kind, and recorded a closer more than once.
C15_Witness ==
  /\ pc = "done"
  /\ ret.kind = "result"
  /\ \E ch \in DOMAIN Scanned \cap {"[", "{"} : ~NonDecreasing(Scanned[ch])
  /\ \E ch \in DOMAIN Scanned \ {"[", "{"} : Len(Scanned[ch]) > 1

=============================================================================
